---- MODULE Spec2Model ----
(***************************************************************************)
(* RedShot Client (src/redshot/client.py): the polling state machine of    *)
(* Client.main_loop, Client.run, Client.stop and the classifier            *)
(* Client._get_state.                                                      *)
(*                                                                         *)
(* The coroutine main_loop is modelled by its position pc.  The browser    *)
(* page is the environment: every accessor call draws its outcome (the     *)
(* markers present, the canvas bytes, an exception) from a small set.      *)
(* A handler invoked by trigger_event either returns or calls stop(); a    *)
(* task scheduled on the event loop can call stop() while main_loop is     *)
(* suspended in asyncio.sleep.                                             *)
(***************************************************************************)
EXTENDS Integers, Sequences, FiniteSets, TLC

\* ------------------------------------------------------------------ bounds
MaxTicks == 4
MaxChats == 2
MaxStops == 2
QrLen == 2
MaxFrags == 4
MaxRows == 3

\* --------------------------------------------------------------- constants
None == "None"
AUTH == "AUTH"
QR_AUTH == "QR_AUTH"
LOADING == "LOADING"
LOGGED_IN == "LOGGED_IN"

State == {AUTH, QR_AUTH, LOADING, LOGGED_IN}

\* names of the Locator entries the classifier and the loop use
LocAUTH == "Locator.AUTH"
LocQR_CODE == "Locator.QR_CODE"
LocLOADING == "Locator.LOADING"
LocLOGGED_IN == "Locator.LOGGED_IN"

Markers == {LocAUTH, LocQR_CODE, LocLOADING, LocLOGGED_IN}

EVENT_LIST ==
  {"on_start", "on_auth", "on_qr", "on_qr_change", "on_loading",
   "on_logged_in", "on_unread_chat", "on_tick"}

\* qr_binary = None (client.py:92); extracted payloads are never empty
NoBinary == <<>>
ByteValues == {0, 255}
Payloads == [1..QrLen -> ByteValues]

\* outcome of an accessor call (selenium raises on the last three)
AccessOutcome == {"ok", "NotFound", "Stale", "Fatal"}

\* fragments of the unread chat list: a chat row or a row of another shape
Titles == {"Alice", "Bob"}
Fragments ==
  [kind : {"item"}, text : Titles] \cup [kind : {"other"}, text : {""}]

RECURSIVE SeqsUpTo(_, _)
SeqsUpTo(S, n) ==
  IF n = 0 THEN {<<>>}
  ELSE LET shorter == SeqsUpTo(S, n - 1)
       IN shorter \cup {Append(s, x) : s \in {t \in shorter : Len(t) = n - 1}, x \in S}

FragmentLists == SeqsUpTo(Fragments, MaxChats)

VARIABLES
  running,        \* self.running
  quited,         \* self.quited
  driver,         \* self._driver: "none" (None), "open", "quit"
  quitCalls,      \* number of calls of self._driver.quit()
  pc,             \* position of run()/main_loop()
  state,          \* local `state` of main_loop
  qr_binary,      \* local `qr_binary` of main_loop
  curr_state,     \* local `curr_state` of main_loop
  unread_chats,   \* local `unread_chats` still to be delivered
  err,            \* exception that left main_loop ("none" if none)
  events,         \* events triggered in the current iteration, in order
  markers,        \* page markers present at the last classification
  consulted,      \* locators is_present was asked for, in order
  lastSeen,       \* last recognised classification before this iteration
  iter,           \* iterations begun
  tickCount,      \* on_tick events triggered so far
  entryCount,     \* state-entry events triggered so far
  onlyNone,       \* every classification so far was None
  rows,           \* rows the unread scan of this iteration found, in order
  extracted,      \* QR payload extracted in this iteration (NoBinary if none)
  loadingSeen,    \* is_present(LOADING_CHATS) of this iteration
  view,           \* chat-list filter selected on the page
  filterClicks,   \* filter buttons clicked by the scan of this iteration
  stopAt,         \* where the first stop() was called from
  afterStop,      \* events triggered after the first stop() call
  swallowed,      \* exception caught at client.py:145 in this iteration
  usedQuit,       \* an accessor call was made on a driver already quit
  entry,          \* how main_loop was entered: "run" or "main_loop"
  startCount,     \* on_start events triggered so far
  lastQrPayload,  \* payload of the most recent on_qr / on_qr_change
  qrEntries,      \* on_qr events triggered so far
  q_pc,           \* query surface: "idle", "search", "recent", "raised"
  q_input,        \* fragments the query found, in document order
  q_sorted,       \* search(): sorted_result_items, as indices into q_input
  q_results       \* list the query returned

viewVars == <<view, filterClicks>>

vars ==
  <<running, quited, driver, quitCalls, pc, state, qr_binary, curr_state,
    unread_chats, err, events, markers, consulted, lastSeen, iter, tickCount,
    entryCount, onlyNone, rows, extracted, loadingSeen, viewVars, stopAt,
    afterStop, swallowed, usedQuit, entry, startCount, lastQrPayload,
    qrEntries, q_pc, q_input, q_sorted, q_results>>

clientVars == <<running, quited, driver, quitCalls>>
stopVars == <<running, quited, driver, quitCalls, stopAt>>
tickGhost == <<rows, extracted, loadingSeen, swallowed>>
eventGhost == <<startCount, lastQrPayload, qrEntries>>
queryVars == <<q_pc, q_input, q_sorted, q_results>>
classVars == <<curr_state, markers, consulted, lastSeen, iter, onlyNone>>

\* ------------------------------------------------------------ pure helpers

\* utils.is_present(driver, locator): presence of a match, False on not found
IsPresent(m, loc) == loc \in m

\* _get_state with the LOADING and QR_CODE checks in the wrong order
GetStateMut(m) ==
  IF IsPresent(m, LocLOGGED_IN) THEN LOGGED_IN
  ELSE IF IsPresent(m, LocQR_CODE) THEN QR_AUTH
  ELSE IF IsPresent(m, LocLOADING) THEN LOADING
  ELSE IF IsPresent(m, LocAUTH) THEN AUTH
  ELSE None

\* Client._get_state: the state returned for the set m of present markers
GetState(m) ==
  IF IsPresent(m, LocLOGGED_IN) THEN LOGGED_IN
  ELSE IF IsPresent(m, LocLOADING) THEN LOADING
  ELSE IF IsPresent(m, LocQR_CODE) THEN QR_AUTH
  ELSE IF IsPresent(m, LocAUTH) THEN AUTH
  ELSE None

\* Client._get_state: the presence checks it performs, in order
GetStateChecks(m) ==
  IF IsPresent(m, LocLOGGED_IN) THEN <<LocLOGGED_IN>>
  ELSE IF IsPresent(m, LocLOADING) THEN <<LocLOGGED_IN, LocLOADING>>
  ELSE IF IsPresent(m, LocQR_CODE) THEN <<LocLOGGED_IN, LocLOADING, LocQR_CODE>>
  ELSE <<LocLOGGED_IN, LocLOADING, LocQR_CODE, LocAUTH>>

\* a loop that never looks at the flag
LoopConditionMut == TRUE

\* `while self.running` (client.py:98)
LoopCondition == running

\* a loop that treats every recognised tick as a transition
IsTransitionMut(c, s) == TRUE

\* `elif curr_state != state` (client.py:107)
IsTransition(c, s) == c # s

\* change detection that only looks at the first byte
QrChangedMut(curr, stored) == stored = NoBinary \/ curr[1] # stored[1]

\* `if curr_qr_binary != qr_binary` (client.py:141): bytes compare by content
QrChanged(curr, stored) == curr # stored

\* utils.parse_search_result(chat, category): a record, or None
ParseSearchResult(frag, category) ==
  IF frag.kind = "item"
  THEN [na |-> FALSE, category |-> category, title |-> frag.text]
  ELSE [na |-> TRUE, category |-> "", title |-> ""]

\* a scan that prepends instead of appending
RECURSIVE ScanUnreadMut(_)
ScanUnreadMut(chats) ==
  IF chats = <<>> THEN <<>>
  ELSE LET chat_result == ParseSearchResult(Head(chats), "CHATS")
       IN IF ~chat_result.na
          THEN ScanUnreadMut(Tail(chats)) \o <<chat_result>>
          ELSE ScanUnreadMut(Tail(chats))

\* the loop of client.py:163-166 over the rows of the unread chat list
RECURSIVE ScanUnread(_)
ScanUnread(chats) ==
  IF chats = <<>> THEN <<>>
  ELSE LET chat_result == ParseSearchResult(Head(chats), "CHATS")
       IN IF ~chat_result.na
          THEN <<chat_result>> \o ScanUnread(Tail(chats))
          ELSE ScanUnread(Tail(chats))

Event(name, arg) == [name |-> name, arg |-> arg]
NoArg == <<>>

StateEntryNames == {"on_auth", "on_qr", "on_loading", "on_logged_in"}

\* ----------------------------------------------------------------- stop()

\* a stop() that quits the driver but forgets to clear the running flag
StopMut(from) ==
  /\ running' = running
  /\ quited' = TRUE
  /\ quitCalls' = quitCalls + 1
  /\ driver' = "quit"
  /\ stopAt' = IF stopAt = "none" THEN from ELSE stopAt

\* Client.stop (client.py:186-192), called from `from`
Stop(from) ==
  /\ running' = FALSE
  /\ quited' = TRUE
  /\ quitCalls' = quitCalls + 1
  /\ driver' = "quit"
  /\ stopAt' = IF stopAt = "none" THEN from ELSE stopAt

\* EventHandler.trigger_event(name, *args): the handler runs synchronously;
\* h says whether the handler calls client.stop()
TriggerEvent(name, arg, h) ==
  /\ name \in EVENT_LIST
  /\ events' = Append(events, Event(name, arg))
  /\ afterStop' = IF stopAt # "none" THEN Append(afterStop, name) ELSE afterStop
  /\ tickCount' = IF name = "on_tick" THEN tickCount + 1 ELSE tickCount
  /\ entryCount' = IF name \in StateEntryNames THEN entryCount + 1 ELSE entryCount
  /\ startCount' = IF name = "on_start" THEN startCount + 1 ELSE startCount
  /\ qrEntries' = IF name = "on_qr" THEN qrEntries + 1 ELSE qrEntries
  /\ lastQrPayload' =
       IF name \in {"on_qr", "on_qr_change"} THEN arg ELSE lastQrPayload
  /\ IF h /\ quitCalls < MaxStops
     THEN Stop(IF name = "on_start" THEN "on_start" ELSE "handler")
     ELSE UNCHANGED stopVars

\* an accessor call: made on a driver that was quit, it is a use after release
Access == usedQuit' = (usedQuit \/ driver = "quit")

\* an exception leaves main_loop and run()
Raise(e) ==
  /\ pc' = "raised"
  /\ err' = e

\* a scan that leaves the unread filter selected
ReturnToAllChatsMut ==
  /\ view' = "unread"
  /\ filterClicks' = <<"unread">>

\* client.py:169: the all-chats button is clicked after the unread button
ReturnToAllChats ==
  /\ view' = "all"
  /\ filterClicks' = <<"unread", "all">>

\* -------------------------------------------------------------------- Init

Init ==
  /\ running = FALSE
  /\ quited = FALSE
  /\ driver = "none"
  /\ quitCalls = 0
  /\ pc = "idle"
  /\ state = None
  /\ qr_binary = NoBinary
  /\ curr_state = None
  /\ unread_chats = <<>>
  /\ err = "none"
  /\ events = <<>>
  /\ markers = {}
  /\ consulted = <<>>
  /\ lastSeen = None
  /\ iter = 0
  /\ tickCount = 0
  /\ entryCount = 0
  /\ onlyNone = TRUE
  /\ rows = <<>>
  /\ extracted = NoBinary
  /\ loadingSeen = FALSE
  /\ view = "all"
  /\ filterClicks = <<>>
  /\ stopAt = "none"
  /\ afterStop = <<>>
  /\ swallowed = "none"
  /\ usedQuit = FALSE
  /\ entry = "none"
  /\ startCount = 0
  /\ lastQrPayload = NoBinary
  /\ qrEntries = 0
  /\ q_pc = "idle"
  /\ q_input = <<>>
  /\ q_sorted = <<>>
  /\ q_results = <<>>

\* ----------------------------------------------------------------- actions

\* Client.run (client.py:183-184): set the flag, enter main_loop
Run ==
  /\ pc = "idle"
  /\ running' = TRUE
  /\ entry' = "run"
  /\ pc' = "init"
  /\ UNCHANGED <<quited, driver, quitCalls, state, qr_binary, unread_chats, err,
                 events, classVars, tickCount, entryCount, eventGhost,
                 tickGhost, viewVars, usedQuit, stopAt, afterStop>>
  /\ UNCHANGED queryVars

\* the application awaits main_loop() itself (client.py:48): nothing has set
\* the running flag
MainLoopDirect ==
  /\ pc = "idle"
  /\ entry' = "main_loop"
  /\ pc' = "init"
  /\ UNCHANGED <<clientVars, state, qr_binary, unread_chats, err, events,
                 classVars, tickCount, entryCount, eventGhost, tickGhost, viewVars,
                 usedQuit, stopAt, afterStop>>
  /\ UNCHANGED queryVars

\* main_loop, client.py:89-93: create the driver, open the page, reset locals
InitDriver ==
  /\ pc = "init"
  /\ driver' = "open"
  /\ qr_binary' = NoBinary
  /\ state' = None
  /\ pc' = "start"
  /\ UNCHANGED <<running, quited, quitCalls, unread_chats, err, events,
                 classVars, tickCount, entryCount, eventGhost, tickGhost, viewVars, usedQuit, stopAt,
                 afterStop>>
  /\ UNCHANGED <<entry, queryVars>>

\* an on_start that is only triggered while the running flag is set
StartMut ==
  /\ pc = "start"
  /\ IF running
     THEN \E h \in BOOLEAN : TriggerEvent("on_start", NoArg, h)
     ELSE UNCHANGED <<events, afterStop, tickCount, entryCount, eventGhost,
                      stopVars>>
  /\ pc' = "loop"
  /\ UNCHANGED <<state, qr_binary, unread_chats, err, classVars, tickGhost,
                 viewVars, usedQuit>>
  /\ UNCHANGED <<entry, queryVars>>

\* main_loop, client.py:95: trigger on_start
Start ==
  /\ pc = "start"
  /\ \E h \in BOOLEAN : TriggerEvent("on_start", NoArg, h)
  /\ pc' = "loop"
  /\ UNCHANGED <<state, qr_binary, unread_chats, err, classVars, tickGhost,
                 viewVars, usedQuit>>
  /\ UNCHANGED <<entry, queryVars>>

\* client.py:98, flag cleared: the loop ends and run() returns
LoopExit ==
  /\ pc = "loop"
  /\ ~LoopCondition
  /\ pc' = "done"
  /\ UNCHANGED <<clientVars, state, qr_binary, unread_chats, err, events,
                 classVars, tickCount, entryCount, eventGhost, tickGhost, viewVars, usedQuit, stopAt,
                 afterStop>>
  /\ UNCHANGED <<entry, queryVars>>

\* client.py:98-100: a new iteration begins with curr_state = _get_state();
\* a failure of is_present other than "not found" propagates
Classify ==
  /\ pc = "loop"
  /\ LoopCondition
  /\ iter < MaxTicks
  /\ iter' = iter + 1
  /\ events' = <<>>
  /\ rows' = <<>>
  /\ extracted' = NoBinary
  /\ loadingSeen' = FALSE
  /\ swallowed' = "none"
  /\ Access
  /\ \E m \in SUBSET Markers, r \in {"ok", "Fatal"} :
       /\ markers' = m
       /\ IF r = "ok"
          THEN /\ curr_state' = GetState(m)
               /\ consulted' = GetStateChecks(m)
               /\ lastSeen' = IF curr_state # None THEN curr_state ELSE lastSeen
               /\ onlyNone' = (onlyNone /\ GetState(m) = None)
               /\ pc' = "classified"
               /\ err' = err
          ELSE /\ consulted' = <<>>
               /\ UNCHANGED <<curr_state, lastSeen, onlyNone>>
               /\ Raise(r)
  /\ UNCHANGED <<clientVars, state, qr_binary, unread_chats, tickCount,
                 entryCount, eventGhost, viewVars, stopAt, afterStop>>
  /\ UNCHANGED <<entry, queryVars>>

\* client.py:100-107: _get_state has returned and its observations of the
\* page are gone; the loop branches on curr_state
Dispatch ==
  /\ pc = "classified"
  /\ markers' = {}
  /\ consulted' = <<>>
  /\ pc' = "dispatch"
  /\ UNCHANGED <<clientVars, state, qr_binary, curr_state, unread_chats, err,
                 events, lastSeen, iter, onlyNone, tickCount, entryCount,
                 eventGhost, tickGhost, viewVars, usedQuit, stopAt, afterStop>>
  /\ UNCHANGED <<entry, queryVars>>

\* client.py:102-104: Indeterminate, sleep and `continue`
Indeterminate ==
  /\ pc = "dispatch"
  /\ curr_state = None
  /\ pc' = "sleep"
  /\ UNCHANGED <<clientVars, state, qr_binary, unread_chats, err, events,
                 classVars, tickCount, entryCount, eventGhost, tickGhost, viewVars, usedQuit, stopAt,
                 afterStop>>
  /\ UNCHANGED <<entry, queryVars>>

\* client.py:107-112 and 129: transition into AUTH
TransitionAuth ==
  /\ pc = "dispatch"
  /\ curr_state # None
  /\ IsTransition(curr_state, state)
  /\ curr_state = AUTH
  /\ \E h \in BOOLEAN : TriggerEvent("on_auth", NoArg, h)
  /\ state' = curr_state
  /\ pc' = "tick"
  /\ UNCHANGED <<qr_binary, unread_chats, err, classVars, tickGhost, viewVars, usedQuit>>
  /\ UNCHANGED <<entry, queryVars>>

\* a QR_AUTH case that stores the payload only when none is stored yet
TransitionQrKeepMut ==
  /\ pc = "dispatch"
  /\ curr_state # None
  /\ IsTransition(curr_state, state)
  /\ curr_state = QR_AUTH
  /\ Access
  /\ \E o \in AccessOutcome, p \in Payloads, h \in BOOLEAN :
       IF o = "ok"
       THEN /\ qr_binary' = IF qr_binary = NoBinary THEN p ELSE qr_binary
            /\ extracted' = p
            /\ TriggerEvent("on_qr", p, h)
            /\ state' = curr_state
            /\ pc' = "tick"
            /\ err' = err
       ELSE /\ Raise(o)
            /\ UNCHANGED <<qr_binary, extracted, state, events, afterStop,
                           tickCount, entryCount, eventGhost, stopVars>>
  /\ UNCHANGED <<unread_chats, classVars, rows, loadingSeen, swallowed, viewVars>>
  /\ UNCHANGED <<entry, queryVars>>

\* a QR_AUTH case that swallows a failed extraction and goes on
TransitionQrMut ==
  /\ pc = "dispatch"
  /\ curr_state # None
  /\ IsTransition(curr_state, state)
  /\ curr_state = QR_AUTH
  /\ Access
  /\ \E o \in AccessOutcome, p \in Payloads, h \in BOOLEAN :
       IF o = "ok"
       THEN /\ qr_binary' = p
            /\ extracted' = p
            /\ TriggerEvent("on_qr", p, h)
            /\ state' = curr_state
            /\ pc' = "tick"
            /\ err' = err
       ELSE /\ pc' = "tick"
            /\ state' = curr_state
            /\ UNCHANGED <<qr_binary, extracted, err, events, afterStop,
                           tickCount, entryCount, eventGhost, stopVars>>
  /\ UNCHANGED <<unread_chats, classVars, rows, loadingSeen, swallowed, viewVars>>
  /\ UNCHANGED <<entry, queryVars>>

\* client.py:114-119 and 129: transition into QR_AUTH; find_element or the
\* canvas export can raise, and nothing catches it here
TransitionQr ==
  /\ pc = "dispatch"
  /\ curr_state # None
  /\ IsTransition(curr_state, state)
  /\ curr_state = QR_AUTH
  /\ Access
  /\ \E o \in AccessOutcome, p \in Payloads, h \in BOOLEAN :
       IF o = "ok"
       THEN /\ qr_binary' = p
            /\ extracted' = p
            /\ TriggerEvent("on_qr", p, h)
            /\ state' = curr_state
            /\ pc' = "tick"
            /\ err' = err
       ELSE /\ Raise(o)
            /\ UNCHANGED <<qr_binary, extracted, state, events, afterStop,
                           tickCount, entryCount, eventGhost, stopVars>>
  /\ UNCHANGED <<unread_chats, classVars, rows, loadingSeen, swallowed, viewVars>>
  /\ UNCHANGED <<entry, queryVars>>

\* a LOADING case that forgets the chats-loading signal
TransitionLoadingMut ==
  /\ pc = "dispatch"
  /\ curr_state # None
  /\ IsTransition(curr_state, state)
  /\ curr_state = LOADING
  /\ Access
  /\ \E o \in {"ok", "Fatal"}, loading_chats \in BOOLEAN, h \in BOOLEAN :
       IF o = "ok"
       THEN /\ loadingSeen' = loading_chats
            /\ TriggerEvent("on_loading", FALSE, h)
            /\ state' = curr_state
            /\ pc' = "tick"
            /\ err' = err
       ELSE /\ Raise(o)
            /\ UNCHANGED <<loadingSeen, state, events, afterStop, tickCount,
                           entryCount, eventGhost, stopVars>>
  /\ UNCHANGED <<qr_binary, unread_chats, classVars, rows, extracted,
                 swallowed, viewVars>>
  /\ UNCHANGED <<entry, queryVars>>

\* client.py:121-124 and 129: transition into LOADING
TransitionLoading ==
  /\ pc = "dispatch"
  /\ curr_state # None
  /\ IsTransition(curr_state, state)
  /\ curr_state = LOADING
  /\ Access
  /\ \E o \in {"ok", "Fatal"}, loading_chats \in BOOLEAN, h \in BOOLEAN :
       IF o = "ok"
       THEN /\ loadingSeen' = loading_chats
            /\ TriggerEvent("on_loading", loading_chats, h)
            /\ state' = curr_state
            /\ pc' = "tick"
            /\ err' = err
       ELSE /\ Raise(o)
            /\ UNCHANGED <<loadingSeen, state, events, afterStop, tickCount,
                           entryCount, eventGhost, stopVars>>
  /\ UNCHANGED <<qr_binary, unread_chats, classVars, rows, extracted,
                 swallowed, viewVars>>
  /\ UNCHANGED <<entry, queryVars>>

\* client.py:126-129: transition into LOGGED_IN
TransitionLoggedIn ==
  /\ pc = "dispatch"
  /\ curr_state # None
  /\ IsTransition(curr_state, state)
  /\ curr_state = LOGGED_IN
  /\ \E h \in BOOLEAN : TriggerEvent("on_logged_in", NoArg, h)
  /\ state' = curr_state
  /\ pc' = "tick"
  /\ UNCHANGED <<qr_binary, unread_chats, err, classVars, tickGhost, viewVars, usedQuit>>
  /\ UNCHANGED <<entry, queryVars>>

\* a steady QR_AUTH branch whose except clause names only the stale handle
SteadyQrMut ==
  /\ pc = "dispatch"
  /\ curr_state # None
  /\ ~IsTransition(curr_state, state)
  /\ curr_state = QR_AUTH
  /\ Access
  /\ \E o \in AccessOutcome, curr_qr_binary \in Payloads, h \in BOOLEAN :
       CASE o = "ok" ->
              /\ extracted' = curr_qr_binary
              /\ IF QrChanged(curr_qr_binary, qr_binary)
                 THEN /\ qr_binary' = curr_qr_binary
                      /\ TriggerEvent("on_qr_change", curr_qr_binary, h)
                 ELSE UNCHANGED <<qr_binary, events, afterStop, tickCount,
                                  entryCount, eventGhost, stopVars>>
              /\ pc' = "tick"
              /\ UNCHANGED <<err, swallowed>>
         [] o \in {"Stale"} ->
              /\ swallowed' = o
              /\ pc' = "tick"
              /\ UNCHANGED <<extracted, qr_binary, events, afterStop,
                             tickCount, entryCount, eventGhost, stopVars, err>>
         [] OTHER ->
              /\ Raise(o)
              /\ UNCHANGED <<extracted, swallowed, qr_binary, events, afterStop,
                             tickCount, entryCount, eventGhost, stopVars>>
  /\ UNCHANGED <<state, unread_chats, classVars, rows, loadingSeen, viewVars>>
  /\ UNCHANGED <<entry, queryVars>>

\* client.py:131-148: steady QR_AUTH; stale and not-found are swallowed
SteadyQr ==
  /\ pc = "dispatch"
  /\ curr_state # None
  /\ ~IsTransition(curr_state, state)
  /\ curr_state = QR_AUTH
  /\ Access
  /\ \E o \in AccessOutcome, curr_qr_binary \in Payloads, h \in BOOLEAN :
       CASE o = "ok" ->
              /\ extracted' = curr_qr_binary
              /\ IF QrChanged(curr_qr_binary, qr_binary)
                 THEN /\ qr_binary' = curr_qr_binary
                      /\ TriggerEvent("on_qr_change", curr_qr_binary, h)
                 ELSE UNCHANGED <<qr_binary, events, afterStop, tickCount,
                                  entryCount, eventGhost, stopVars>>
              /\ pc' = "tick"
              /\ UNCHANGED <<err, swallowed>>
         [] o \in {"Stale", "NotFound"} ->
              /\ swallowed' = o
              /\ pc' = "tick"
              /\ UNCHANGED <<extracted, qr_binary, events, afterStop,
                             tickCount, entryCount, eventGhost, stopVars, err>>
         [] OTHER ->
              /\ Raise(o)
              /\ UNCHANGED <<extracted, swallowed, qr_binary, events, afterStop,
                             tickCount, entryCount, eventGhost, stopVars>>
  /\ UNCHANGED <<state, unread_chats, classVars, rows, loadingSeen, viewVars>>
  /\ UNCHANGED <<entry, queryVars>>

\* client.py:151-169: steady LOGGED_IN; select the unread filter, parse the
\* rows of the chat list, select the all-chats filter again
SteadyLoggedIn ==
  /\ pc = "dispatch"
  /\ curr_state # None
  /\ ~IsTransition(curr_state, state)
  /\ curr_state = LOGGED_IN
  /\ Access
  /\ \E unreadBtn \in AccessOutcome, listing \in {"ok", "Stale", "Fatal"},
        chat_list \in 0..1, chats \in FragmentLists, allBtn \in AccessOutcome :
       CASE unreadBtn # "ok" ->
              /\ Raise(unreadBtn)
              /\ UNCHANGED <<viewVars, unread_chats, rows>>
         [] unreadBtn = "ok" /\ listing # "ok" ->
              /\ Raise(listing)
              /\ view' = "unread"
              /\ filterClicks' = <<"unread">>
              /\ UNCHANGED <<unread_chats, rows>>
         [] unreadBtn = "ok" /\ listing = "ok" /\ allBtn # "ok" ->
              /\ Raise(allBtn)
              /\ view' = "unread"
              /\ filterClicks' = <<"unread">>
              /\ UNCHANGED <<unread_chats, rows>>
         [] OTHER ->
              /\ ReturnToAllChats
              /\ rows' = IF chat_list # 0 THEN chats ELSE <<>>
              /\ unread_chats' = IF chat_list # 0 THEN ScanUnread(chats) ELSE <<>>
              /\ pc' = "unread"
              /\ err' = err
  /\ UNCHANGED <<clientVars, state, qr_binary, events, classVars, tickCount,
                 entryCount, eventGhost, extracted, loadingSeen, swallowed,
                 stopAt, afterStop>>
  /\ UNCHANGED <<entry, queryVars>>

\* client.py:171-172: one on_unread_chat per collected chat, in list order
FireUnreadChat ==
  /\ pc = "unread"
  /\ unread_chats # <<>>
  /\ \E h \in BOOLEAN : TriggerEvent("on_unread_chat", Head(unread_chats), h)
  /\ unread_chats' = Tail(unread_chats)
  /\ pc' = "unread"
  /\ UNCHANGED <<state, qr_binary, err, classVars, tickGhost, viewVars, usedQuit>>
  /\ UNCHANGED <<entry, queryVars>>

\* client.py:171: the for loop is exhausted
UnreadDone ==
  /\ pc = "unread"
  /\ unread_chats = <<>>
  /\ pc' = "tick"
  /\ UNCHANGED <<clientVars, state, qr_binary, unread_chats, err, events,
                 classVars, tickCount, entryCount, eventGhost, tickGhost, viewVars, usedQuit, stopAt,
                 afterStop>>
  /\ UNCHANGED <<entry, queryVars>>

\* client.py:131-151: steady AUTH or LOADING, neither branch applies
SteadyOther ==
  /\ pc = "dispatch"
  /\ curr_state # None
  /\ ~IsTransition(curr_state, state)
  /\ curr_state \notin {QR_AUTH, LOGGED_IN}
  /\ pc' = "tick"
  /\ UNCHANGED <<clientVars, state, qr_binary, unread_chats, err, events,
                 classVars, tickCount, entryCount, eventGhost, tickGhost, viewVars, usedQuit, stopAt,
                 afterStop>>
  /\ UNCHANGED <<entry, queryVars>>

\* client.py:174: on_tick, then the loop suspends in asyncio.sleep
Tick ==
  /\ pc = "tick"
  /\ \E h \in BOOLEAN : TriggerEvent("on_tick", NoArg, h)
  /\ pc' = "sleep"
  /\ filterClicks' = <<>>
  /\ UNCHANGED <<state, qr_binary, unread_chats, err, classVars, tickGhost,
                 view, usedQuit>>
  /\ UNCHANGED <<entry, queryVars>>

\* client.py:103 and 175: asyncio.sleep(poll_freq) returns
Wake ==
  /\ pc = "sleep"
  /\ pc' = "loop"
  /\ UNCHANGED <<clientVars, state, qr_binary, unread_chats, err, events,
                 classVars, tickCount, entryCount, eventGhost, tickGhost, viewVars, usedQuit, stopAt,
                 afterStop>>
  /\ UNCHANGED <<entry, queryVars>>

\* a task scheduled on the event loop calls stop() while main_loop sleeps
StopFromTask ==
  /\ pc = "sleep"
  /\ quitCalls < MaxStops
  /\ Stop("task")
  /\ UNCHANGED <<pc, state, qr_binary, curr_state, unread_chats, err, events,
                 markers, consulted, lastSeen, iter, tickCount, entryCount, eventGhost,
                 onlyNone, tickGhost, viewVars, usedQuit, afterStop>>
  /\ UNCHANGED <<entry, queryVars>>

\* the application calls stop() after run() has returned or raised
StopAfterRun ==
  /\ pc \in {"done", "raised"}
  /\ quitCalls < MaxStops
  /\ Stop("outside")
  /\ UNCHANGED <<pc, state, qr_binary, curr_state, unread_chats, err, events,
                 markers, consulted, lastSeen, iter, tickCount, entryCount, eventGhost,
                 onlyNone, tickGhost, viewVars, usedQuit, afterStop>>
  /\ UNCHANGED <<entry, queryVars>>

Next ==
  \/ Run
  \/ MainLoopDirect
  \/ InitDriver
  \/ Start
  \/ LoopExit
  \/ Classify
  \/ Dispatch
  \/ Indeterminate
  \/ TransitionAuth
  \/ TransitionQr
  \/ TransitionLoading
  \/ TransitionLoggedIn
  \/ SteadyQr
  \/ SteadyLoggedIn
  \/ FireUnreadChat
  \/ UnreadDone
  \/ SteadyOther
  \/ Tick
  \/ Wake
  \/ StopFromTask
  \/ StopAfterRun

Spec == Init /\ [][Next]_vars

\* the steps of the coroutine main_loop itself; the asyncio event loop
\* resumes it after every sleep and every accessor call returns
LoopStep ==
  \/ InitDriver
  \/ Start
  \/ LoopExit
  \/ Classify
  \/ Dispatch
  \/ Indeterminate
  \/ TransitionAuth
  \/ TransitionQr
  \/ TransitionLoading
  \/ TransitionLoggedIn
  \/ SteadyQr
  \/ SteadyLoggedIn
  \/ FireUnreadChat
  \/ UnreadDone
  \/ SteadyOther
  \/ Tick
  \/ Wake

SpecFair == Init /\ [][Next]_vars /\ WF_vars(LoopStep)

\* ------------------------------------------------------ event sequences

IsEntry(e) == e.name \in StateEntryNames
IsTick(e) == e.name = "on_tick"
IsUnread(e) == e.name = "on_unread_chat"
IsItem(f) == f.kind = "item"

CountName(evs, n) == Cardinality({i \in 1..Len(evs) : evs[i].name = n})
HasEntry(evs) == \E i \in 1..Len(evs) : IsEntry(evs[i])

\* the iteration has passed the state-specific part without failing
Dispatched == pc \in {"unread", "tick", "sleep"}

\* the iteration has run to its end (it is suspended in asyncio.sleep)
IterationCompleted == pc = "sleep"

\* two payloads differ in length or in some byte
BytesDiffer(a, b) ==
  \/ Len(a) # Len(b)
  \/ \E i \in 1..Len(a) : a[i] # b[i]

\* ------------------------------------------------------------------ claims

\* C1: a state-entry event fires in an iteration exactly when its classified
\* state is recognised and differs from the most recent recognised
\* classification before it (or there is none); an Indeterminate iteration
\* fires nothing and leaves the remembered state as it was.  The "if" part
\* is stated of iterations that were not aborted by an accessor failure,
\* the "only if" part of every state.
C1_EntryIffStateChanged ==
  /\ HasEntry(events) => (curr_state # None /\ curr_state # lastSeen)
  /\ Dispatched =>
       /\ HasEntry(events) <=> (curr_state # None /\ curr_state # lastSeen)
       /\ CountName(events, "on_auth") + CountName(events, "on_qr")
            + CountName(events, "on_loading")
            + CountName(events, "on_logged_in") <= 1
       /\ curr_state = None => (events = <<>> /\ state = lastSeen)
       /\ curr_state # None => state = curr_state

C1_Witness ==
  /\ pc = "sleep"
  /\ iter = 3
  /\ entryCount = 2
  /\ HasEntry(events)
  /\ lastSeen # None
  /\ state = curr_state

\* C2: when an iteration is over, on_tick has fired exactly once in it and
\* is the last event of the iteration, whatever the classified state.
C2_TickOncePerIteration ==
  IterationCompleted =>
    /\ CountName(events, "on_tick") = 1
    /\ events[Len(events)].name = "on_tick"

\* C3: as long as every classification was Indeterminate, the number of
\* on_tick events equals the number of iterations and no state-entry event
\* has fired.
C3_IndeterminateTicks ==
  (IterationCompleted /\ onlyNone) => (tickCount = iter /\ entryCount = 0)

\* C4: a steady QR_AUTH iteration whose extraction succeeds fires nothing
\* when the extracted bytes equal the stored payload, and exactly one
\* on_qr_change carrying the extracted payload when some byte differs; the
\* stored payload is the extracted one afterwards.
C4_QrChangeByContent ==
  [][ ( /\ pc = "dispatch"
        /\ curr_state = QR_AUTH
        /\ lastSeen = QR_AUTH
        /\ pc' = "tick"
        /\ extracted' # NoBinary )
      => /\ qr_binary' = extracted'
         /\ IF BytesDiffer(extracted', qr_binary)
            THEN /\ Len(events') = Len(events) + 1
                 /\ events'[Len(events')].name = "on_qr_change"
                 /\ events'[Len(events')].arg = extracted'
            ELSE events' = events ]_vars

C4_Witness ==
  /\ pc = "tick"
  /\ curr_state = QR_AUTH
  /\ lastSeen = QR_AUTH
  /\ extracted # NoBinary
  /\ Len(events) = 1
  /\ events[1].name = "on_qr_change"
  /\ events[1].arg = extracted
  /\ qr_binary = extracted

\* C5: over any number of stop() calls the driver session is quit at most
\* once.
C5_StopReleasesOnce == quitCalls <= 1

\* C6: when an accessor failure has left main_loop and run(), the driver
\* session has been released exactly once.
C6_ReleasedOnFailure ==
  pc = "raised" => (driver = "quit" /\ quitCalls = 1)

\* C7 (as stated): no event is triggered after the first stop() call.
C7_NoEventAfterStop == afterStop = <<>>

\* C7 (amended): once stop() was called no further iteration begins; a
\* stop() from a task between iterations or from the on_start handler is
\* followed by no event, and a stop() from a handler inside an iteration is
\* followed only by the rest of that iteration: on_unread_chat events and
\* the on_tick.
C7_NoIterationAfterStop ==
  [][ quited =>
        /\ iter' = iter
        /\ events' # events =>
             /\ stopAt = "handler"
             /\ Len(events') = Len(events) + 1
             /\ events'[Len(events')].name \in {"on_unread_chat", "on_tick"} ]_vars

C7_Witness ==
  /\ pc = "done"
  /\ stopAt = "handler"
  /\ Len(afterStop) = 2
  /\ afterStop[1] = "on_unread_chat"
  /\ afterStop[2] = "on_tick"

\* C8: the classifier returns the state of the first marker present in the
\* order LOGGED_IN, LOADING, QR_CODE, AUTH, None exactly when no marker is
\* present, and asks for no marker after the first one present.
Rank(loc) ==
  CASE loc = LocLOGGED_IN -> 1
    [] loc = LocLOADING -> 2
    [] loc = LocQR_CODE -> 3
    [] loc = LocAUTH -> 4

StateOf(loc) ==
  CASE loc = LocLOGGED_IN -> LOGGED_IN
    [] loc = LocLOADING -> LOADING
    [] loc = LocQR_CODE -> QR_AUTH
    [] loc = LocAUTH -> AUTH

C8_ClassifierPriority ==
  pc = "classified" =>
    /\ curr_state = None <=> markers = {}
    /\ curr_state # None =>
         \E l \in markers :
           /\ StateOf(l) = curr_state
           /\ \A k \in markers : Rank(l) <= Rank(k)
           /\ Len(consulted) = Rank(l)
    /\ curr_state = None => Len(consulted) = 4
    /\ \A i \in 1..Len(consulted) : Rank(consulted[i]) = i

C8_Witness ==
  /\ pc = "classified"
  /\ markers = {LocLOADING, LocQR_CODE, LocAUTH}
  /\ curr_state = LOADING
  /\ consulted = <<LocLOGGED_IN, LocLOADING>>

\* C9: in a transition iteration that no accessor failure aborted,
\* exactly one state-entry event fires, the
\* one of the new state with its argument (the payload just extracted for
\* on_qr, the chats-loading signal for on_loading); the remembered state is
\* the new state afterwards and no on_qr_change or on_unread_chat fires.
EntryNameOf(s) ==
  CASE s = AUTH -> "on_auth"
    [] s = QR_AUTH -> "on_qr"
    [] s = LOADING -> "on_loading"
    [] s = LOGGED_IN -> "on_logged_in"

C9_OneEntryEventPerTransition ==
  (Dispatched /\ curr_state # None /\ curr_state # lastSeen) =>
    LET evs == SelectSeq(events, LAMBDA e : ~IsTick(e))
    IN /\ Len(evs) = 1
       /\ evs[1].name = EntryNameOf(curr_state)
       /\ curr_state = QR_AUTH =>
            (extracted # NoBinary /\ evs[1].arg = extracted /\ qr_binary = extracted)
       /\ curr_state = LOADING => evs[1].arg = loadingSeen
       /\ state = curr_state

C9_Witness ==
  /\ pc = "sleep"
  /\ curr_state = LOADING
  /\ lastSeen = QR_AUTH
  /\ loadingSeen
  /\ Len(events) = 2
  /\ events[1].name = "on_loading"
  /\ events[1].arg = TRUE
  /\ state = LOADING

\* C10: on_unread_chat fires only in steady LOGGED_IN iterations, once per
\* row of the unread list that parses as a chat, in row order, each before
\* the on_tick of the iteration.
C10_UnreadChatPerItem ==
  LET unreadEvs == SelectSeq(events, IsUnread)
      items == SelectSeq(rows, IsItem)
  IN /\ unreadEvs # <<>> =>
          /\ curr_state = LOGGED_IN
          /\ lastSeen = LOGGED_IN
          /\ CountName(events, "on_logged_in") = 0
     /\ Len(unreadEvs) <= Len(items)
     /\ \A i \in 1..Len(unreadEvs) :
          /\ ~unreadEvs[i].arg.na
          /\ unreadEvs[i].arg.title = items[i].text
          /\ unreadEvs[i].arg.category = "CHATS"
     /\ \A i, j \in 1..Len(events) :
          (IsTick(events[i]) /\ IsUnread(events[j])) => j < i
     /\ (pc \in {"tick", "sleep"} /\ curr_state = LOGGED_IN /\ lastSeen = LOGGED_IN)
          => Len(unreadEvs) = Len(items)

C10_Witness ==
  /\ pc = "sleep"
  /\ curr_state = LOGGED_IN
  /\ lastSeen = LOGGED_IN
  /\ Len(rows) = 2
  /\ rows[1].kind = "other"
  /\ rows[2].kind = "item"
  /\ Len(events) = 2
  /\ events[1].name = "on_unread_chat"
  /\ events[1].arg.title = rows[2].text
  /\ events[2].name = "on_tick"

\* --------------------------------------------- query surface: fragments

\* vertical offsets the page gives to the rows of the result list
Offsets == {40, 120}

DigitChars == <<"0", "1", "2", "3", "4", "5", "6", "7", "8", "9">>
DigitSet == {DigitChars[d] : d \in 1..10}
DigitValue == [c \in DigitSet |-> (CHOOSE d \in 1..10 : DigitChars[d] = c) - 1]

\* decimal digits of n, as the page writes them into the style value
RECURSIVE Digits(_)
Digits(n) ==
  IF n < 10 THEN <<DigitChars[n + 1]>>
  ELSE Digits(n \div 10) \o <<DigitChars[(n % 10) + 1]>>

\* value of the CSS property "transform" of a row at offset y: the declared
\* form translateY(<y>px) or the computed form matrix(1, 0, 0, 1, 0, <y>)
TransformFormats == {"translateY", "matrix"}

TransformOf(fmt, y) ==
  IF fmt = "translateY"
  THEN <<"t", "r", "a", "n", "s", "l", "a", "t", "e", "Y", "(">>
         \o Digits(y) \o <<"p", "x", ")">>
  ELSE <<"m", "a", "t", "r", "i", "x", "(", "1", ",", " ", "0", ",", " ",
         "0", ",", " ", "1", ",", " ", "0", ",", " ">> \o Digits(y) \o <<")">>

\* re.findall(r"\d+", text) from position i on: the maximal runs of digits,
\* left to right (cur is the run being read, -1 when outside a run)
RECURSIVE FindAllDigitRuns(_, _, _, _)
FindAllDigitRuns(text, i, cur, found) ==
  IF i > Len(text)
  THEN IF cur >= 0 THEN Append(found, cur) ELSE found
  ELSE IF text[i] \in DigitSet
       THEN FindAllDigitRuns(text, i + 1,
                             (IF cur >= 0 THEN cur * 10 ELSE 0)
                               + DigitValue[text[i]],
                             found)
       ELSE FindAllDigitRuns(text, i + 1, -1,
                             IF cur >= 0 THEN Append(found, cur) ELSE found)

\* the values of the transform property the page produces
Transforms == {TransformOf(fmt, y) : fmt \in TransformFormats, y \in Offsets}

\* re.findall(r"\d+", text)[0] and re.findall(r"\d+", text)[-1], tabulated
\* over the values the page produces
FirstInteger ==
  [text \in Transforms |-> FindAllDigitRuns(text, 1, -1, <<>>)[1]]
LastInteger ==
  [text \in Transforms |->
     LET runs == FindAllDigitRuns(text, 1, -1, <<>>) IN runs[Len(runs)]]

\* a sort key that takes the first integer of the transform value
SearchSortKeyMut(frag) == FirstInteger[frag.transform]

\* Client.search_sort_key (client.py:36): the last integer of the value
SearchSortKey(frag) == LastInteger[frag.transform]

\* sorted(): an element goes behind every element whose key is not larger
RECURSIVE InsertByKey(_, _, _)
InsertByKey(sorted, i, key) ==
  IF sorted = <<>> THEN <<i>>
  ELSE IF key[Head(sorted)] <= key[i]
       THEN <<Head(sorted)>> \o InsertByKey(Tail(sorted), i, key)
       ELSE <<i>> \o sorted

RECURSIVE SortByKey(_, _)
SortByKey(key, n) ==
  IF n = 0 THEN <<>> ELSE InsertByKey(SortByKey(key, n - 1), n, key)

\* sorted(result_items, key=self.search_sort_key) (client.py:339), as the
\* positions of result_items in their new order; the key of every element
\* is computed once
SortedItems(items) ==
  LET key == [i \in 1..Len(items) |-> SearchSortKey(items[i])]
  IN SortByKey(key, Len(items))

\* client.py:343-345: one child div without children of its own
IsHeader(frag) == frag.kind = "header"

\* a loop that keeps the first header it saw
RECURSIVE SearchLoopMut(_, _, _, _)
SearchLoopMut(items, order, curr_type, results) ==
  IF order = <<>> THEN results
  ELSE LET result == items[Head(order)]
       IN IF IsHeader(result)
          THEN SearchLoopMut(items, Tail(order),
                             IF curr_type = None THEN result.text ELSE curr_type,
                             results)
          ELSE LET search_result == ParseSearchResult(result, curr_type)
               IN SearchLoopMut(items, Tail(order), curr_type,
                                IF ~search_result.na
                                THEN Append(results, search_result)
                                ELSE results)

\* the loop of client.py:341-352 over sorted_result_items
RECURSIVE SearchLoop(_, _, _, _)
SearchLoop(items, order, curr_type, results) ==
  IF order = <<>> THEN results
  ELSE LET result == items[Head(order)]
       IN IF IsHeader(result)
          THEN SearchLoop(items, Tail(order), result.text, results)
          ELSE LET search_result == ParseSearchResult(result, curr_type)
               IN SearchLoop(items, Tail(order), curr_type,
                             IF ~search_result.na
                             THEN Append(results, search_result)
                             ELSE results)

\* rows of the search result list: section headers, results, other rows
SearchHeaders == {"CHATS", "CONTACTS"}
SearchShapes ==
  [kind : {"header"}, text : SearchHeaders]
    \cup [kind : {"item"}, text : Titles]
    \cup [kind : {"other"}, text : {""}]

SearchRows(fmt) ==
  {[kind |-> sh.kind, text |-> sh.text, y |-> y,
    transform |-> TransformOf(fmt, y)] : sh \in SearchShapes, y \in Offsets}

\* utils.parse_message(driver, message): a Message, or None for a fragment
\* without the metadata attribute
ParseMessage(frag) ==
  IF frag.meta
  THEN [na |-> FALSE, sender |-> frag.sender, bodyText |-> frag.body]
  ELSE [na |-> TRUE, sender |-> "", bodyText |-> ""]

\* item.find_elements(*Locator.CHAT_MESSAGE) (client.py:279): the part of
\* the component that carries data-pre-plain-text, if any
FindChatMessage(item) == IF item.meta THEN <<item>> ELSE <<>>

\* a loop that parses every component, with or without a message part
RECURSIVE RecentLoopMut(_)
RecentLoopMut(chat_items) ==
  IF chat_items = <<>> THEN <<>>
  ELSE <<ParseMessage(Head(chat_items))>> \o RecentLoopMut(Tail(chat_items))

\* the loop of client.py:276-283 over the chat components
RECURSIVE RecentLoop(_)
RecentLoop(chat_items) ==
  IF chat_items = <<>> THEN <<>>
  ELSE LET message == FindChatMessage(Head(chat_items))
       IN IF Len(message) # 0
          THEN <<ParseMessage(message[1])>> \o RecentLoop(Tail(chat_items))
          ELSE RecentLoop(Tail(chat_items))

\* chat components: messages of two senders, and rows without metadata
\* (date dividers, system notices)
Components ==
  [meta : {TRUE}, sender : {"Alice", "Bob"}, body : {"hi"}]
    \cup [meta : {FALSE}, sender : {""}, body : {""}]

\* ------------------------------------------------ query surface: actions

loopVars ==
  <<running, quited, driver, quitCalls, pc, state, qr_binary, curr_state,
    unread_chats, err, events, markers, consulted, lastSeen, iter, tickCount,
    entryCount, onlyNone, rows, extracted, loadingSeen, viewVars, stopAt,
    afterStop, swallowed, usedQuit, entry, startCount, lastQrPayload,
    qrEntries>>

\* the on_logged_in handler of the first iteration is running (the place
\* src/examples/simple_example.py calls the query surface from)
InitQuery ==
  /\ running = TRUE
  /\ quited = FALSE
  /\ driver = "open"
  /\ quitCalls = 0
  /\ pc = "tick"
  /\ state = LOGGED_IN
  /\ qr_binary = NoBinary
  /\ curr_state = LOGGED_IN
  /\ unread_chats = <<>>
  /\ err = "none"
  /\ events = <<Event("on_logged_in", NoArg)>>
  /\ markers = {}
  /\ consulted = <<>>
  /\ lastSeen = None
  /\ iter = 1
  /\ tickCount = 0
  /\ entryCount = 1
  /\ onlyNone = FALSE
  /\ rows = <<>>
  /\ extracted = NoBinary
  /\ loadingSeen = FALSE
  /\ view = "all"
  /\ filterClicks = <<>>
  /\ stopAt = "none"
  /\ afterStop = <<>>
  /\ swallowed = "none"
  /\ usedQuit = FALSE
  /\ entry = "run"
  /\ startCount = 1
  /\ lastQrPayload = NoBinary
  /\ qrEntries = 0
  /\ q_pc = "idle"
  /\ q_input = <<>>
  /\ q_sorted = <<>>
  /\ q_results = <<>>

\* Client.search (client.py:325-357)
Search ==
  /\ q_pc = "idle"
  /\ driver = "open"
  /\ \E o \in {"ok", "Fatal"} :
       IF o = "ok"
       THEN \E fmt \in TransformFormats :
              \E result_items \in SeqsUpTo(SearchRows(fmt), MaxFrags) :
                /\ q_input' = result_items
                /\ q_sorted' = SortedItems(result_items)
                /\ q_results' = SearchLoop(result_items, q_sorted', None, <<>>)
                /\ q_pc' = "search"
       ELSE /\ q_pc' = "raised"
            /\ UNCHANGED <<q_input, q_sorted, q_results>>
  /\ UNCHANGED loopVars

\* Client.get_recent_messages (client.py:262-289)
GetRecentMessages ==
  /\ q_pc = "idle"
  /\ driver = "open"
  /\ \E o \in {"ok", "Fatal"} :
       IF o = "ok"
       THEN \E chat_items \in SeqsUpTo(Components, MaxRows) :
              /\ q_input' = chat_items
              /\ q_results' = RecentLoop(chat_items)
              /\ q_pc' = "recent"
              /\ q_sorted' = q_sorted
       ELSE /\ q_pc' = "raised"
            /\ UNCHANGED <<q_input, q_sorted, q_results>>
  /\ UNCHANGED loopVars

NextQuery ==
  \/ Search
  \/ GetRecentMessages

SpecQuery == InitQuery /\ [][NextQuery]_vars

\* C14: run() returns only after stop() was called or a failure left the
\* loop, and once stop() was called it does return (or raise): the loop
\* finishes the iteration in flight, reads the flag and ends.
C14_RunBlocksUntilStop ==
  /\ [](entry = "run" /\ pc = "done" => quited /\ ~running)
  /\ [](pc = "raised" => err # "none")
  /\ ((entry = "run" /\ quited) ~> (pc \in {"done", "raised"}))

C14_Witness ==
  /\ entry = "run"
  /\ pc = "done"
  /\ stopAt = "task"
  /\ iter = 2
  /\ tickCount = 2
  /\ err = "none"

\* C15: in a steady QR_AUTH iteration a stale-handle or not-found failure
\* of the re-extraction is caught: no event fires for it, qr_binary and
\* state keep their values, the iteration goes on to its on_tick, run()
\* does not raise, and every later steady QR_AUTH iteration extracts again.
C15_SteadyQrFailureSwallowed ==
  /\ []((pc = "raised" /\ curr_state = QR_AUTH /\ lastSeen = QR_AUTH)
          => err \notin {"Stale", "NotFound"})
  /\ [][ /\ (swallowed = "none" /\ swallowed' # "none") =>
              /\ curr_state = QR_AUTH
              /\ lastSeen = QR_AUTH
              /\ swallowed' \in {"Stale", "NotFound"}
              /\ pc' = "tick"
              /\ err' = "none"
              /\ events = <<>>
              /\ events' = <<>>
              /\ qr_binary' = qr_binary
              /\ state' = state
              /\ state = QR_AUTH
         /\ (swallowed # "none" /\ pc = "tick") =>
              /\ pc' = "sleep"
              /\ Len(events') = 1
              /\ events'[1].name = "on_tick"
         /\ (pc = "dispatch" /\ curr_state = QR_AUTH /\ lastSeen = QR_AUTH) =>
              \/ extracted' # NoBinary
              \/ swallowed' # "none"
              \/ pc' = "raised" ]_vars

C15_Witness ==
  /\ pc = "sleep"
  /\ swallowed = "Stale"
  /\ curr_state = QR_AUTH
  /\ state = QR_AUTH
  /\ qr_binary # NoBinary
  /\ Len(events) = 1
  /\ events[1].name = "on_tick"
  /\ err = "none"

C17_TransientAbsenceNotRaised ==
  ~(pc = "raised" /\ curr_state = LOGGED_IN /\ err = "NotFound")

\* C18: whoever calls stop() (a handler inside an iteration, a task while
\* the loop sleeps), the loop makes no accessor call on the driver once it
\* has been quit.
C18_NoAccessAfterQuit ==
  /\ ~usedQuit
  /\ (driver = "quit" /\ entry # "none") =>
       pc \in {"loop", "unread", "tick", "sleep", "done", "raised"}
  /\ (driver = "quit" /\ pc = "loop") => ~LoopCondition

C18_Witness ==
  /\ pc = "done"
  /\ stopAt = "handler"
  /\ driver = "quit"
  /\ curr_state = LOGGED_IN
  /\ Len(events) = 2
  /\ events[1].name = "on_logged_in"
  /\ events[2].name = "on_tick"
  /\ ~usedQuit

\* C19: on_start fires exactly once per run, after the driver was created
\* and before the first classification and every other event; it fires
\* although the running flag is not set, and a stop() from its handler
\* ends the loop with no iteration and no further event.
C19_OnStartOnceFirst ==
  /\ startCount <= 1
  /\ startCount = 1 <=> pc \notin {"idle", "init", "start"}
  /\ startCount = 1 => driver # "none"
  /\ (iter > 0 \/ tickCount > 0 \/ entryCount > 0) => startCount = 1
  /\ (entry = "main_loop" /\ pc \in {"loop", "done"}) =>
       (startCount = 1 /\ ~running /\ iter = 0)
  /\ stopAt = "on_start" =>
       /\ iter = 0
       /\ afterStop = <<>>
       /\ tickCount = 0
       /\ entryCount = 0
       /\ pc \in {"loop", "done"}
       /\ Len(events) = 1
       /\ events[1].name = "on_start"

C19_Witness ==
  /\ entry = "main_loop"
  /\ stopAt = "on_start"
  /\ pc = "done"
  /\ startCount = 1
  /\ iter = 0
  /\ Len(events) = 1
  /\ events[1].name = "on_start"

\* C20: whenever the remembered state is QR_AUTH the stored payload is the
\* one carried by the most recent on_qr or on_qr_change; every entry into
\* QR_AUTH, also a re-entry, fires on_qr with the payload extracted in that
\* iteration and stores it, so on_qr_change is computed against a payload
\* of the current QR_AUTH episode.
C20_StoredQrIsLastAnnounced ==
  /\ state = QR_AUTH => (qr_binary # NoBinary /\ qr_binary = lastQrPayload)
  /\ (Dispatched /\ curr_state = QR_AUTH /\ lastSeen # QR_AUTH) =>
       /\ events[1].name = "on_qr"
       /\ extracted # NoBinary
       /\ events[1].arg = extracted
       /\ qr_binary = extracted
  /\ \A i \in 1..Len(events) :
       events[i].name = "on_qr_change" =>
         (events[i].arg = qr_binary /\ events[i].arg = extracted)

C20_Witness ==
  /\ pc = "sleep"
  /\ iter = 4
  /\ qrEntries = 2
  /\ curr_state = QR_AUTH
  /\ lastSeen = QR_AUTH
  /\ Len(events) = 2
  /\ events[1].name = "on_qr_change"
  /\ events[1].arg = qr_binary
  /\ lastQrPayload = qr_binary


\* ------------------------------------------------ query surface: claims

\* the rows are listed top to bottom
PositionOrdered(items) ==
  \A i, j \in 1..Len(items) : i < j => items[i].y <= items[j].y

\* the positions in order that hold a result row
ItemPositions(items, order) ==
  SelectSeq(order, LAMBDA i : items[i].kind = "item")

\* the text of the last header listed before position i, None without one
NearestHeader(items, i) ==
  LET before == {j \in 1..(i - 1) : items[j].kind = "header"}
  IN IF before = {} THEN None
     ELSE items[CHOOSE j \in before : \A h \in before : h <= j].text

Identity(n) == [i \in 1..n |-> i]

SearchRow(kind, text, y) ==
  [kind |-> kind, text |-> text, y |-> y,
   transform |-> TransformOf("translateY", y)]

ExampleRows ==
  <<SearchRow("header", "CHATS", 40), SearchRow("item", "Alice", 40),
    SearchRow("item", "Bob", 40), SearchRow("header", "CONTACTS", 120),
    SearchRow("item", "Carol", 120)>>

ExampleResults ==
  <<[na |-> FALSE, category |-> "CHATS", title |-> "Alice"],
    [na |-> FALSE, category |-> "CHATS", title |-> "Bob"],
    [na |-> FALSE, category |-> "CONTACTS", title |-> "Carol"]>>

\* C11: over rows listed top to bottom, search() returns the result rows in
\* input order, each tagged with the text of the last header before it, and
\* returns nothing for the headers; the rows header(CHATS), Alice, Bob,
\* header(CONTACTS), Carol give (CHATS, Alice), (CHATS, Bob), (CONTACTS, Carol)
C11_ItemsTaggedByNearestHeader ==
  /\ SearchLoop(ExampleRows, SortedItems(ExampleRows), None, <<>>)
       = ExampleResults
  /\ (q_pc = "search" /\ PositionOrdered(q_input)) =>
       LET idx == ItemPositions(q_input, Identity(Len(q_input)))
       IN /\ Len(q_results) = Len(idx)
          /\ \A k \in 1..Len(idx) :
               q_results[k] =
                 [na |-> FALSE,
                  category |-> NearestHeader(q_input, idx[k]),
                  title |-> q_input[idx[k]].text]

C11_Witness ==
  /\ q_pc = "search"
  /\ PositionOrdered(q_input)
  /\ Len(q_input) = 4
  /\ q_input[1].kind = "header" /\ q_input[1].text = "CHATS"
  /\ q_input[2].kind = "item" /\ q_input[2].text = "Alice"
  /\ q_input[3].kind = "header" /\ q_input[3].text = "CONTACTS"
  /\ q_input[4].kind = "item" /\ q_input[4].text = "Bob"
  /\ q_results =
       <<[na |-> FALSE, category |-> "CHATS", title |-> "Alice"],
         [na |-> FALSE, category |-> "CONTACTS", title |-> "Bob"]>>

\* C12: search() goes through the rows in ascending order of their vertical
\* offset, read as the last integer of the transform value (a row at 40
\* before a row at 120); rows of equal offset keep their document order
C12_AscendingStableOrder ==
  q_pc = "search" =>
    LET n == Len(q_input)
        seen == ItemPositions(q_input, q_sorted)
    IN /\ Len(q_sorted) = n
       /\ {q_sorted[k] : k \in 1..n} = 1..n
       /\ \A a, b \in 1..n :
            a < b =>
              \/ q_input[q_sorted[a]].y < q_input[q_sorted[b]].y
              \/ /\ q_input[q_sorted[a]].y = q_input[q_sorted[b]].y
                 /\ q_sorted[a] < q_sorted[b]
       /\ Len(q_results) = Len(seen)
       /\ \A k \in 1..Len(seen) : q_results[k].title = q_input[seen[k]].text

C12_Witness ==
  /\ q_pc = "search"
  /\ Len(q_input) = 3
  /\ q_input[1].y = 120 /\ q_input[2].y = 40 /\ q_input[3].y = 40
  /\ q_input[1].transform = TransformOf("matrix", 120)
  /\ q_sorted = <<2, 3, 1>>

\* the positions of the components that carry the metadata attribute
MetadataPositions(items) ==
  SelectSeq(Identity(Len(items)), LAMBDA i : items[i].meta)

\* C13: get_recent_messages returns one Message for every chat component that
\* carries the metadata attribute, in component order, and no "not applicable"
\* entry for the components that lack it
C13_OneMessagePerMetadataComponent ==
  q_pc = "recent" =>
    LET idx == MetadataPositions(q_input)
    IN /\ Len(q_results) = Len(idx)
       /\ \A k \in 1..Len(idx) :
            /\ ~q_results[k].na
            /\ q_results[k].sender = q_input[idx[k]].sender
            /\ q_results[k].bodyText = q_input[idx[k]].body

C13_Witness ==
  /\ q_pc = "recent"
  /\ Len(q_input) = 3
  /\ q_input[1].meta /\ q_input[1].sender = "Bob"
  /\ ~q_input[2].meta
  /\ q_input[3].meta /\ q_input[3].sender = "Alice"
  /\ Len(q_results) = 2
  /\ q_results[1].sender = "Bob"
  /\ q_results[2].sender = "Alice"


\* C21: in a steady LOGGED_IN iteration the scan clicks the unread filter and
\* then the all-chats filter before any on_unread_chat or on_tick handler of
\* that iteration runs, also when it collected no chat; handlers and the next
\* iteration see the unfiltered list, the filtered one only after a failure
C21_AllChatsRestoredBeforeHandlers ==
  /\ pc = "unread" =>
        view = "all" /\ filterClicks = <<"unread", "all">>
  /\ (pc = "tick" /\ filterClicks # <<>>) =>
        view = "all" /\ filterClicks = <<"unread", "all">>
  /\ view # "all" => pc = "raised"

C21_Witness ==
  /\ pc = "tick"
  /\ state = LOGGED_IN
  /\ filterClicks = <<"unread", "all">>
  /\ view = "all"
  /\ unread_chats = <<>>
  /\ rows = <<>>
  /\ CountName(events, "on_unread_chat") = 0

====
